---------------------------- MODULE Spec2Model ----------------------------
(***************************************************************************)
(* A model of the artificial_neural_networks forecasting toolkit:          *)
(*   - code/utils/generic_utils.py: none_or_int, none_or_float             *)
(*   - code/applications/.../lstm_dense_sunspots.py: lstm_dense_sunspots   *)
(*     with its nested model_predict                                       *)
(*   - code/applications/.../sarimax_sunspots.py: main                     *)
(* Three specifications share the variables: SpecCoerce (the coercion      *)
(* helpers applied to a command-line token), Spec (one run of the          *)
(* LSTM-Dense application) and SpecSarimax (one run of the SARIMAX         *)
(* application).                                                           *)
(*                                                                         *)
(* Conventions.  A Python str is a sequence of one-character strings.  A   *)
(* 1-D numpy array is a sequence; a windowed array of shape                *)
(* (samples, look_back, 1) is a sequence of rows (the trailing axis of     *)
(* extent 1 carries no information).  Python indices are 0-based and are   *)
(* kept 0-based in every variable and operator argument; only SubSeq and   *)
(* s[j] shift by one.                                                      *)
(***************************************************************************)
EXTENDS Integers, Sequences, FiniteSets, TLC

VARIABLES
    app, pc, err,
    \* generic_utils.py, and the interpreter's settings
    token, value, unidata_version, int_max_str_digits,
    \* shared by the two applications
    sunspots, scaling_factor, translation, n_split,
    \* lstm_dense_sunspots
    look_back, steps_ahead, optimizer_name,
    train, test, train_x, train_y, test_x, test_y,
    train_x_, train_y_, test_x_, test_y_, train_, test_,
    compiled, fitted, saved,
    \* model_predict frame (call = which of the two calls is running)
    call, n_y, n_iter, L_last_window, i, x_dyn, y_pred,
    train_y_pred_, test_y_pred_,
    \* observation of the calls made on external libraries
    fed, nwrites, sarimax_calls

coerceVars == <<token, value, unidata_version, int_max_str_digits>>
dataVars == <<sunspots, scaling_factor, translation>>
argVars == <<look_back, steps_ahead, optimizer_name>>
splitVars == <<n_split, train, test>>
windowVars == <<train_x, train_y, test_x, test_y>>
scaledVars == <<train_x_, train_y_, test_x_, test_y_, train_, test_>>
phaseVars == <<compiled, fitted, saved>>
frameVars == <<call, n_y, n_iter, L_last_window, i, x_dyn, y_pred>>
predVars == <<train_y_pred_, test_y_pred_>>
obsVars == <<fed, nwrites>>

vars == <<app, pc, err, coerceVars, dataVars, argVars, splitVars, windowVars,
          scaledVars, phaseVars, frameVars, predVars, obsVars, sarimax_calls>>

(***************************************************************************)
(* Bounds of the model.                                                    *)
(***************************************************************************)
MaxTokLen == 4
MaxSeries == 9
MaxLookBack == 3
MaxStepsAhead == 4
SarimaxExtra == 7

Min(a, b) == IF a < b THEN a ELSE b
Max(a, b) == IF a > b THEN a ELSE b

(***************************************************************************)
(* Python sequence slicing s[a:b] with 0-based, possibly negative, bounds: *)
(* a negative bound counts from the end, and both are clamped to           *)
(* [0, len(s)].                                                            *)
(***************************************************************************)
PyIndex(j, len) == IF j < 0 THEN Max(j + len, 0) ELSE Min(j, len)

PySlice(s, a, b) ==
    LET lo == PyIndex(a, Len(s))
        hi == PyIndex(b, Len(s))
    IN  IF hi <= lo THEN <<>> ELSE SubSeq(s, lo + 1, hi)

PySliceFrom(s, a) == PySlice(s, a, Len(s))

PySliceTo(s, b) == PySlice(s, 0, b)

(***************************************************************************)
(* generic_utils.py                                                        *)
(*                                                                         *)
(* int and float are the builtins of CPython, from 3.6 to 3.13.  Two       *)
(* settings of the interpreter bear on them: the version of the Unicode    *)
(* character database it was built with (unicodedata.unidata_version, by   *)
(* its major number: 9 in CPython 3.6, 14 in 3.11, 15 in 3.12 and 3.13),   *)
(* and the limit on the digits of an integer (sys.get_int_max_str_digits,  *)
(* 0 for none).                                                            *)
(*                                                                         *)
(* A character is a string: itself when it is a printable character of     *)
(* ASCII, one of the escapes \t \n \f \r, and otherwise "U+" followed by   *)
(* its code point in hexadecimal.  A Python int is a sign and a decimal    *)
(* numeral.  A float is an IEEE 754 double: a sign, the decimal numeral of *)
(* its significand, below 2^53, and the power of two that multiplies it,   *)
(* from MinExp to MaxExp; the significand is at least 2^52 unless the      *)
(* power is MinExp.                                                        *)
(***************************************************************************)
\* The characters command-line tokens are drawn from: the letters of
\* "None", a digit, the point and the minus sign.
Alphabet == {"N", "o", "n", "e", "5", ".", "-"}

\* The ASCII digits, zero to nine, and the set of them.
AsciiDigits == <<"0", "1", "2", "3", "4", "5", "6", "7", "8", "9">>

DecimalDigits == {AsciiDigits[k] : k \in 1..10}

\* The decimal digits of every script (the characters of Unicode category
\* Nd), zero to nine, the ASCII digits first.
DigitRows == <<
    AsciiDigits,
    <<"U+0660", "U+0661", "U+0662", "U+0663", "U+0664",
      "U+0665", "U+0666", "U+0667", "U+0668", "U+0669">>,
    <<"U+06F0", "U+06F1", "U+06F2", "U+06F3", "U+06F4",
      "U+06F5", "U+06F6", "U+06F7", "U+06F8", "U+06F9">>,
    <<"U+07C0", "U+07C1", "U+07C2", "U+07C3", "U+07C4",
      "U+07C5", "U+07C6", "U+07C7", "U+07C8", "U+07C9">>,
    <<"U+0966", "U+0967", "U+0968", "U+0969", "U+096A",
      "U+096B", "U+096C", "U+096D", "U+096E", "U+096F">>,
    <<"U+09E6", "U+09E7", "U+09E8", "U+09E9", "U+09EA",
      "U+09EB", "U+09EC", "U+09ED", "U+09EE", "U+09EF">>,
    <<"U+0A66", "U+0A67", "U+0A68", "U+0A69", "U+0A6A",
      "U+0A6B", "U+0A6C", "U+0A6D", "U+0A6E", "U+0A6F">>,
    <<"U+0AE6", "U+0AE7", "U+0AE8", "U+0AE9", "U+0AEA",
      "U+0AEB", "U+0AEC", "U+0AED", "U+0AEE", "U+0AEF">>,
    <<"U+0B66", "U+0B67", "U+0B68", "U+0B69", "U+0B6A",
      "U+0B6B", "U+0B6C", "U+0B6D", "U+0B6E", "U+0B6F">>,
    <<"U+0BE6", "U+0BE7", "U+0BE8", "U+0BE9", "U+0BEA",
      "U+0BEB", "U+0BEC", "U+0BED", "U+0BEE", "U+0BEF">>,
    <<"U+0C66", "U+0C67", "U+0C68", "U+0C69", "U+0C6A",
      "U+0C6B", "U+0C6C", "U+0C6D", "U+0C6E", "U+0C6F">>,
    <<"U+0CE6", "U+0CE7", "U+0CE8", "U+0CE9", "U+0CEA",
      "U+0CEB", "U+0CEC", "U+0CED", "U+0CEE", "U+0CEF">>,
    <<"U+0D66", "U+0D67", "U+0D68", "U+0D69", "U+0D6A",
      "U+0D6B", "U+0D6C", "U+0D6D", "U+0D6E", "U+0D6F">>,
    <<"U+0DE6", "U+0DE7", "U+0DE8", "U+0DE9", "U+0DEA",
      "U+0DEB", "U+0DEC", "U+0DED", "U+0DEE", "U+0DEF">>,
    <<"U+0E50", "U+0E51", "U+0E52", "U+0E53", "U+0E54",
      "U+0E55", "U+0E56", "U+0E57", "U+0E58", "U+0E59">>,
    <<"U+0ED0", "U+0ED1", "U+0ED2", "U+0ED3", "U+0ED4",
      "U+0ED5", "U+0ED6", "U+0ED7", "U+0ED8", "U+0ED9">>,
    <<"U+0F20", "U+0F21", "U+0F22", "U+0F23", "U+0F24",
      "U+0F25", "U+0F26", "U+0F27", "U+0F28", "U+0F29">>,
    <<"U+1040", "U+1041", "U+1042", "U+1043", "U+1044",
      "U+1045", "U+1046", "U+1047", "U+1048", "U+1049">>,
    <<"U+1090", "U+1091", "U+1092", "U+1093", "U+1094",
      "U+1095", "U+1096", "U+1097", "U+1098", "U+1099">>,
    <<"U+17E0", "U+17E1", "U+17E2", "U+17E3", "U+17E4",
      "U+17E5", "U+17E6", "U+17E7", "U+17E8", "U+17E9">>,
    <<"U+1810", "U+1811", "U+1812", "U+1813", "U+1814",
      "U+1815", "U+1816", "U+1817", "U+1818", "U+1819">>,
    <<"U+1946", "U+1947", "U+1948", "U+1949", "U+194A",
      "U+194B", "U+194C", "U+194D", "U+194E", "U+194F">>,
    <<"U+19D0", "U+19D1", "U+19D2", "U+19D3", "U+19D4",
      "U+19D5", "U+19D6", "U+19D7", "U+19D8", "U+19D9">>,
    <<"U+1A80", "U+1A81", "U+1A82", "U+1A83", "U+1A84",
      "U+1A85", "U+1A86", "U+1A87", "U+1A88", "U+1A89">>,
    <<"U+1A90", "U+1A91", "U+1A92", "U+1A93", "U+1A94",
      "U+1A95", "U+1A96", "U+1A97", "U+1A98", "U+1A99">>,
    <<"U+1B50", "U+1B51", "U+1B52", "U+1B53", "U+1B54",
      "U+1B55", "U+1B56", "U+1B57", "U+1B58", "U+1B59">>,
    <<"U+1BB0", "U+1BB1", "U+1BB2", "U+1BB3", "U+1BB4",
      "U+1BB5", "U+1BB6", "U+1BB7", "U+1BB8", "U+1BB9">>,
    <<"U+1C40", "U+1C41", "U+1C42", "U+1C43", "U+1C44",
      "U+1C45", "U+1C46", "U+1C47", "U+1C48", "U+1C49">>,
    <<"U+1C50", "U+1C51", "U+1C52", "U+1C53", "U+1C54",
      "U+1C55", "U+1C56", "U+1C57", "U+1C58", "U+1C59">>,
    <<"U+A620", "U+A621", "U+A622", "U+A623", "U+A624",
      "U+A625", "U+A626", "U+A627", "U+A628", "U+A629">>,
    <<"U+A8D0", "U+A8D1", "U+A8D2", "U+A8D3", "U+A8D4",
      "U+A8D5", "U+A8D6", "U+A8D7", "U+A8D8", "U+A8D9">>,
    <<"U+A900", "U+A901", "U+A902", "U+A903", "U+A904",
      "U+A905", "U+A906", "U+A907", "U+A908", "U+A909">>,
    <<"U+A9D0", "U+A9D1", "U+A9D2", "U+A9D3", "U+A9D4",
      "U+A9D5", "U+A9D6", "U+A9D7", "U+A9D8", "U+A9D9">>,
    <<"U+A9F0", "U+A9F1", "U+A9F2", "U+A9F3", "U+A9F4",
      "U+A9F5", "U+A9F6", "U+A9F7", "U+A9F8", "U+A9F9">>,
    <<"U+AA50", "U+AA51", "U+AA52", "U+AA53", "U+AA54",
      "U+AA55", "U+AA56", "U+AA57", "U+AA58", "U+AA59">>,
    <<"U+ABF0", "U+ABF1", "U+ABF2", "U+ABF3", "U+ABF4",
      "U+ABF5", "U+ABF6", "U+ABF7", "U+ABF8", "U+ABF9">>,
    <<"U+FF10", "U+FF11", "U+FF12", "U+FF13", "U+FF14",
      "U+FF15", "U+FF16", "U+FF17", "U+FF18", "U+FF19">>,
    <<"U+104A0", "U+104A1", "U+104A2", "U+104A3", "U+104A4",
      "U+104A5", "U+104A6", "U+104A7", "U+104A8", "U+104A9">>,
    <<"U+10D30", "U+10D31", "U+10D32", "U+10D33", "U+10D34",
      "U+10D35", "U+10D36", "U+10D37", "U+10D38", "U+10D39">>,
    <<"U+11066", "U+11067", "U+11068", "U+11069", "U+1106A",
      "U+1106B", "U+1106C", "U+1106D", "U+1106E", "U+1106F">>,
    <<"U+110F0", "U+110F1", "U+110F2", "U+110F3", "U+110F4",
      "U+110F5", "U+110F6", "U+110F7", "U+110F8", "U+110F9">>,
    <<"U+11136", "U+11137", "U+11138", "U+11139", "U+1113A",
      "U+1113B", "U+1113C", "U+1113D", "U+1113E", "U+1113F">>,
    <<"U+111D0", "U+111D1", "U+111D2", "U+111D3", "U+111D4",
      "U+111D5", "U+111D6", "U+111D7", "U+111D8", "U+111D9">>,
    <<"U+112F0", "U+112F1", "U+112F2", "U+112F3", "U+112F4",
      "U+112F5", "U+112F6", "U+112F7", "U+112F8", "U+112F9">>,
    <<"U+11450", "U+11451", "U+11452", "U+11453", "U+11454",
      "U+11455", "U+11456", "U+11457", "U+11458", "U+11459">>,
    <<"U+114D0", "U+114D1", "U+114D2", "U+114D3", "U+114D4",
      "U+114D5", "U+114D6", "U+114D7", "U+114D8", "U+114D9">>,
    <<"U+11650", "U+11651", "U+11652", "U+11653", "U+11654",
      "U+11655", "U+11656", "U+11657", "U+11658", "U+11659">>,
    <<"U+116C0", "U+116C1", "U+116C2", "U+116C3", "U+116C4",
      "U+116C5", "U+116C6", "U+116C7", "U+116C8", "U+116C9">>,
    <<"U+11730", "U+11731", "U+11732", "U+11733", "U+11734",
      "U+11735", "U+11736", "U+11737", "U+11738", "U+11739">>,
    <<"U+118E0", "U+118E1", "U+118E2", "U+118E3", "U+118E4",
      "U+118E5", "U+118E6", "U+118E7", "U+118E8", "U+118E9">>,
    <<"U+11950", "U+11951", "U+11952", "U+11953", "U+11954",
      "U+11955", "U+11956", "U+11957", "U+11958", "U+11959">>,
    <<"U+11C50", "U+11C51", "U+11C52", "U+11C53", "U+11C54",
      "U+11C55", "U+11C56", "U+11C57", "U+11C58", "U+11C59">>,
    <<"U+11D50", "U+11D51", "U+11D52", "U+11D53", "U+11D54",
      "U+11D55", "U+11D56", "U+11D57", "U+11D58", "U+11D59">>,
    <<"U+11DA0", "U+11DA1", "U+11DA2", "U+11DA3", "U+11DA4",
      "U+11DA5", "U+11DA6", "U+11DA7", "U+11DA8", "U+11DA9">>,
    <<"U+11F50", "U+11F51", "U+11F52", "U+11F53", "U+11F54",
      "U+11F55", "U+11F56", "U+11F57", "U+11F58", "U+11F59">>,
    <<"U+16A60", "U+16A61", "U+16A62", "U+16A63", "U+16A64",
      "U+16A65", "U+16A66", "U+16A67", "U+16A68", "U+16A69">>,
    <<"U+16AC0", "U+16AC1", "U+16AC2", "U+16AC3", "U+16AC4",
      "U+16AC5", "U+16AC6", "U+16AC7", "U+16AC8", "U+16AC9">>,
    <<"U+16B50", "U+16B51", "U+16B52", "U+16B53", "U+16B54",
      "U+16B55", "U+16B56", "U+16B57", "U+16B58", "U+16B59">>,
    <<"U+1D7CE", "U+1D7CF", "U+1D7D0", "U+1D7D1", "U+1D7D2",
      "U+1D7D3", "U+1D7D4", "U+1D7D5", "U+1D7D6", "U+1D7D7">>,
    <<"U+1D7D8", "U+1D7D9", "U+1D7DA", "U+1D7DB", "U+1D7DC",
      "U+1D7DD", "U+1D7DE", "U+1D7DF", "U+1D7E0", "U+1D7E1">>,
    <<"U+1D7E2", "U+1D7E3", "U+1D7E4", "U+1D7E5", "U+1D7E6",
      "U+1D7E7", "U+1D7E8", "U+1D7E9", "U+1D7EA", "U+1D7EB">>,
    <<"U+1D7EC", "U+1D7ED", "U+1D7EE", "U+1D7EF", "U+1D7F0",
      "U+1D7F1", "U+1D7F2", "U+1D7F3", "U+1D7F4", "U+1D7F5">>,
    <<"U+1D7F6", "U+1D7F7", "U+1D7F8", "U+1D7F9", "U+1D7FA",
      "U+1D7FB", "U+1D7FC", "U+1D7FD", "U+1D7FE", "U+1D7FF">>,
    <<"U+1E140", "U+1E141", "U+1E142", "U+1E143", "U+1E144",
      "U+1E145", "U+1E146", "U+1E147", "U+1E148", "U+1E149">>,
    <<"U+1E2F0", "U+1E2F1", "U+1E2F2", "U+1E2F3", "U+1E2F4",
      "U+1E2F5", "U+1E2F6", "U+1E2F7", "U+1E2F8", "U+1E2F9">>,
    <<"U+1E4F0", "U+1E4F1", "U+1E4F2", "U+1E4F3", "U+1E4F4",
      "U+1E4F5", "U+1E4F6", "U+1E4F7", "U+1E4F8", "U+1E4F9">>,
    <<"U+1E950", "U+1E951", "U+1E952", "U+1E953", "U+1E954",
      "U+1E955", "U+1E956", "U+1E957", "U+1E958", "U+1E959">>,
    <<"U+1FBF0", "U+1FBF1", "U+1FBF2", "U+1FBF3", "U+1FBF4",
      "U+1FBF5", "U+1FBF6", "U+1FBF7", "U+1FBF8", "U+1FBF9">>>>

\* The rows that came after version 9 of the Unicode character database,
\* by their zero, and the version that brought each.
DigitRowAdded ==
    <<<<"U+11D50", 10>>, <<"U+10D30", 11>>, <<"U+11DA0", 11>>,
      <<"U+1E140", 12>>, <<"U+1E2F0", 12>>, <<"U+11950", 13>>,
      <<"U+1FBF0", 13>>, <<"U+16AC0", 14>>, <<"U+11F50", 15>>,
      <<"U+1E4F0", 15>>>>

UnidataVersions == {9, 14, 15}

DigitValues ==
    [c \in {DigitRows[r][k] : r \in 1..Len(DigitRows), k \in 1..10} |->
        CHOOSE v \in 0..9 :
            \E r \in 1..Len(DigitRows) : DigitRows[r][v + 1] = c]

\* The version of the database from which on c is a decimal digit (9 for
\* that and any before).
DigitSince ==
    [c \in DOMAIN DigitValues |->
        LET zero == DigitRows[CHOOSE r \in 1..Len(DigitRows) :
                                  DigitRows[r][DigitValues[c] + 1] = c][1]
            later == {j \in 1..Len(DigitRowAdded) : DigitRowAdded[j][1] = zero}
        IN  IF later = {} THEN 9
            ELSE DigitRowAdded[CHOOSE j \in later : TRUE][2]]

\* The decimal digits of each version of the database, and those of the
\* interpreter.
DigitCharsIn ==
    [v \in UnidataVersions |->
        {DigitRows[r][k] : r \in {h \in 1..Len(DigitRows) :
                                     DigitSince[DigitRows[h][1]] <= v},
                           k \in 1..10}]

DigitChars == DigitCharsIn[unidata_version]

DigitVal(c) == DigitValues[c]

\* The white space of ASCII, and the white space beyond it.
AsciiSpace == {" ", "\t", "\n", "U+000B", "\f", "\r"}

UnicodeSpace ==
    {"U+0085", "U+00A0", "U+1680", "U+2000", "U+2001", "U+2002", "U+2003",
     "U+2004", "U+2005", "U+2006", "U+2007", "U+2008", "U+2009", "U+200A",
     "U+2028", "U+2029", "U+202F", "U+205F", "U+3000"}

WhiteSpace == AsciiSpace \cup UnicodeSpace

\* Tokens that use the rest of what the builtins accept or reject: white
\* space, the plus sign, digit grouping, leading and trailing zeros, letter
\* case, characters beyond ASCII, inf, decimals that are not doubles, and
\* the ends of the range of a double.
ExtraTokens ==
    {<<" ", "5">>,
     <<"5", " ">>,
     <<"\t", "5", "\n">>,
     <<"U+000B", "5">>,
     <<"U+000B", "-", "5", "U+000B">>,
     <<"U+001C", "5">>,
     <<"-", " ", "5">>,
     <<" ">>,
     <<"N", "o", "n", "e", " ">>,
     <<" ", "N", "o", "n", "e">>,
     <<"N", "O", "N", "E">>,
     <<"a", "b", "c">>,
     <<"U+00A0", "5">>,
     <<"U+2003", "-", "5", "U+3000">>,
     <<"5", "U+00A0", "5">>,
     <<"-", "U+00A0", "5">>,
     <<"U+0663">>,
     <<"U+FF15">>,
     <<"U+0663", "_", "U+0663">>,
     <<"U+0661", "e", "U+0662">>,
     <<"U+0663", ".", "U+0665", "E", "-", "U+0661">>,
     <<"U+1D7CE", "U+1D7D9">>,
     <<"5", "U+4E00">>,
     <<"U+00B2">>,
     <<"1", "_", "0">>,
     <<"1", "_", "0", ".", "5">>,
     <<"1", "_", "_", "0">>,
     <<"_", "5">>,
     <<"5", "_">>,
     <<"1", "_", ".", "5">>,
     <<"1", ".", "_", "5">>,
     <<"1", "e", "1", "_", "0">>,
     <<"1", "_", "e", "5">>,
     <<"-", "_", "5">>,
     <<"+", "5">>,
     <<"0", "5">>,
     <<"0", "_", "5">>,
     <<"-", "0">>,
     <<"0">>,
     <<"0", "0">>,
     <<"1", "0", "0">>,
     <<"2", ".", "5", "0">>,
     <<"0", ".", "0">>,
     <<"-", "0", ".", "0">>,
     <<"+", ".", "5", "e", "+", "1">>,
     <<"1", "E", "5">>,
     <<"1", "E", "-", "2">>,
     <<"N", "A", "N">>,
     <<"+", "n", "a", "n">>,
     <<" ", "n", "a", "n", " ">>,
     <<"i", "n", "f">>,
     <<"-", "i", "N", "f">>,
     <<"I", "n", "f", "i", "n", "i", "t", "y">>,
     <<"i", "n", "f", "i", "n", "i", "t">>,
     <<"i", "n", "_", "f">>,
     <<"0", ".", "1">>,
     <<"0", ".", "1", "0", "0", "0", "0", "0", "0", "0", "0", "0", "0", "0",
       "0", "0", "0", "0", "1">>,
     <<"0", ".", "3">>,
     <<"1", "e", "2", "3">>,
     <<"9", "0", "0", "7", "1", "9", "9", "2", "5", "4", "7", "4", "0", "9",
       "9", "2">>,
     <<"9", "0", "0", "7", "1", "9", "9", "2", "5", "4", "7", "4", "0", "9",
       "9", "3">>,
     <<"9", "0", "0", "7", "1", "9", "9", "2", "5", "4", "7", "4", "0", "9",
       "9", "5">>,
     <<"4", "5", "0", "3", "5", "9", "9", "6", "2", "7", "3", "7", "0", "4",
       "9", "7", ".", "5">>,
     <<"1", "e", "3", "0", "8">>,
     <<"2", "e", "3", "0", "8">>,
     <<"1", ".", "7", "e", "3", "0", "8">>,
     <<"1", ".", "8", "e", "3", "0", "8">>,
     <<"1", "7", "9", "7", "6", "9", "3", "1", "3", "4", "8", "6", "2", "3",
       "1", "5", "7", "e", "2", "9", "2">>,
     <<"1", "7", "9", "7", "6", "9", "3", "1", "3", "4", "8", "6", "2", "3",
       "1", "5", "8", "e", "2", "9", "2">>,
     <<"1", "7", "9", "7", "6", "9", "3", "1", "3", "4", "8", "6", "2", "3",
       "1", "5", "9", "e", "2", "9", "2">>,
     <<"0", "e", "9", "9", "9">>,
     <<"1", "e", "9", "9", "9", "9", "9", "9", "9", "9", "9", "9">>,
     <<"1", "e", "-", "9", "9", "9", "9", "9", "9", "9", "9", "9", "9">>,
     <<"1", "e", "1", "0", "0", "0", "0", "0", "1">>,
     <<"-", "1", "e", "-", "4", "0", "0">>,
     <<"2", "e", "-", "3", "2", "4">>,
     <<"3", "e", "-", "3", "2", "4">>,
     <<"5", "e", "-", "3", "2", "4">>,
     <<"7", "e", "-", "3", "2", "4">>,
     <<"8", "e", "-", "3", "2", "4">>,
     <<"0", ".", "0", "2", "e", "-", "3", "2", "2">>,
     <<"2", ".", "2", "2", "5", "0", "7", "3", "8", "5", "8", "5", "0", "7",
       "2", "0", "1", "1", "e", "-", "3", "0", "8">>,
     <<"2", ".", "2", "2", "5", "0", "7", "3", "8", "5", "8", "5", "0", "7",
       "2", "0", "1", "4", "e", "-", "3", "0", "8">>,
     <<"1", "e", "-", "0", "0", "0", "0", "0", "0", "0", "0", "0", "0", "0",
       "0", "5">>,
     <<"U+11D53">>,
     <<"U+16AC5">>,
     <<"U+11F55">>,
     <<"U+1E4F9", "U+1E4F0">>,
     <<"n", "a", "n">>,
     <<"2", ".", "5">>,
     <<"-", "2", ".", "5">>,
     <<"2", "5">>,
     <<"a">>,
     <<"-", ".", "5", "e", "2">>}

\* The limit CPython 3.11 and later (and the security releases of 3.7 to
\* 3.10) put by default on the digits of a str that int() converts;
\* sys.set_int_max_str_digits changes it, and 0 switches it off, as in the
\* interpreters before.
DefaultMaxStrDigits == 4300

IntMaxStrDigits == {0, DefaultMaxStrDigits}

Repeat(c, n) == SubSeq([j \in 1..n |-> c], 1, n)

\* Numerals at the limit and past it.
LongTokens ==
    {Repeat("1", DefaultMaxStrDigits), Repeat("1", DefaultMaxStrDigits + 1),
     Repeat("0", DefaultMaxStrDigits + 1)}

Tokens ==
    UNION {[1..n -> Alphabet] : n \in 0..MaxTokLen}
        \cup ExtraTokens \cup LongTokens

NoneLiteral == <<"N", "o", "n", "e">>

\* The least and the greatest power of two of a double.
MinExp == -1074
MaxExp == 971

\* Results of the coercions: Python's None, an int, a float (a finite
\* one, nan, or +-inf), or the ValueError the builtin raises.
NoValue == [kind |-> "None", neg |-> FALSE, digits |-> <<>>, exp |-> 0]
IntValue(neg, d) == [kind |-> "int", neg |-> neg, digits |-> d, exp |-> 0]
FloatValue(neg, d, e) ==
    [kind |-> "float", neg |-> neg, digits |-> d, exp |-> e]
NanValue == [kind |-> "nan", neg |-> FALSE, digits |-> <<>>, exp |-> 0]
InfValue(neg) == [kind |-> "inf", neg |-> neg, digits |-> <<>>, exp |-> 0]
ValueError ==
    [kind |-> "ValueError", neg |-> FALSE, digits |-> <<>>, exp |-> 0]
Unset == [kind |-> "unset", neg |-> FALSE, digits |-> <<>>, exp |-> 0]

Drop(s, n) == SubSeq(s, n + 1, Len(s))
Take(s, n) == SubSeq(s, 1, n)

\* The builtins first bring their argument to ASCII: white space beyond
\* ASCII becomes a space and a decimal digit of any script the ASCII digit
\* of its value.  (CPython puts "?" for any other character beyond ASCII
\* and drops what follows it; neither that nor the character itself is
\* accepted anywhere in a number.)  What follows reads ASCII only.
ToAscii(c) ==
    IF c \in UnicodeSpace THEN " "
    ELSE IF c \in DigitChars THEN AsciiDigits[DigitVal(c) + 1]
    ELSE c

AsciiForm(s) == SubSeq([j \in 1..Len(s) |-> ToAscii(s[j])], 1, Len(s))

\* The length of the longest prefix, and of the longest suffix, of s made
\* of characters of the set S.
PrefixLen(s, S) ==
    CHOOSE n \in 0..Len(s) :
        /\ n < Len(s) => s[n + 1] \notin S
        /\ \A j \in 1..n : s[j] \in S

SuffixLen(s, S) ==
    CHOOSE n \in 0..Len(s) :
        /\ n < Len(s) => s[Len(s) - n] \notin S
        /\ \A j \in (Len(s) - n + 1)..Len(s) : s[j] \in S

StripLeft(s) == Drop(s, PrefixLen(s, WhiteSpace))

StripRight(s) == Take(s, Len(s) - SuffixLen(s, WhiteSpace))

Strip(s) == StripRight(StripLeft(s))

\* Digit grouping: an underscore is accepted only between two digits.
GroupingOk(s) ==
    \A j \in 1..Len(s) :
        s[j] = "_" =>
            /\ 1 < j /\ j < Len(s)
            /\ s[j - 1] \in DecimalDigits /\ s[j + 1] \in DecimalDigits

IsNotUnderscore(c) == c # "_"

Ungroup(s) == SelectSeq(s, IsNotUnderscore)

IsSign(c) == c \in {"-", "+"}

AllDigits(s) == \A j \in 1..Len(s) : s[j] \in DecimalDigits

\* A digit string without its leading zeros ("0" for zero).
StripLeadingZeros(d) ==
    IF d = <<>> THEN d ELSE Drop(d, Min(PrefixLen(d, {"0"}), Len(d) - 1))

IsZero(d) == \A j \in 1..Len(d) : d[j] = "0"

\* The value of an ASCII digit, and of a string of them, left to right.
AsciiVal(c) == CHOOSE v \in 0..9 : AsciiDigits[v + 1] = c

RECURSIVE DigitsValue(_, _)
DigitsValue(s, acc) ==
    IF s = <<>> THEN acc
    ELSE DigitsValue(Tail(s), acc * 10 + AsciiVal(Head(s)))

\* Python's int(str): white space is stripped; then an optional sign and
\* one or more decimal digits, which underscores may group.  Under a digit
\* limit, more digits than the limit, leading zeros counted, are refused.
int(input_arg) ==
    LET s == Strip(AsciiForm(input_arg))
        signed == Len(s) > 0 /\ IsSign(s[1])
        body == IF signed THEN Tail(s) ELSE s
        d == Ungroup(body)
    IN  IF ~GroupingOk(body) \/ d = <<>> \/ ~AllDigits(d) THEN ValueError
        ELSE IF int_max_str_digits > 0 /\ Len(d) > int_max_str_digits
        THEN ValueError
        ELSE IntValue(signed /\ s[1] = "-" /\ ~IsZero(d),
                      StripLeadingZeros(d))

\* The length of the longest prefix of s made of digits.
DigitPrefixLen(s) == PrefixLen(s, DecimalDigits)

UpperCase ==
    <<"A", "B", "C", "D", "E", "F", "G", "H", "I", "J", "K", "L", "M",
      "N", "O", "P", "Q", "R", "S", "T", "U", "V", "W", "X", "Y", "Z">>

LowerCase ==
    <<"a", "b", "c", "d", "e", "f", "g", "h", "i", "j", "k", "l", "m",
      "n", "o", "p", "q", "r", "s", "t", "u", "v", "w", "x", "y", "z">>

Lower(c) ==
    IF \E j \in 1..26 : UpperCase[j] = c
    THEN LowerCase[CHOOSE j \in 1..26 : UpperCase[j] = c]
    ELSE c

LowerAll(s) == SubSeq([j \in 1..Len(s) |-> Lower(s[j])], 1, Len(s))

\* Arithmetic for float.
\*
\* TRUE, once x has its value: definitions are evaluated where they are
\* first used, and a chain of them is best evaluated link by link.
Ready(x) == x = x

\* Natural numbers of any size: the limbs of a number in base Base, the
\* least significant first, without a zero at the top (zero is <<>>).
Base == 1000

Limb(a, k) == IF k \in 1..Len(a) THEN a[k] ELSE 0

BigTrim(a) ==
    LET n == Len(a)
    IN  IF \A k \in 1..n : a[k] = 0 THEN <<>>
        ELSE SubSeq(a, 1, n - (CHOOSE z \in 0..(n - 1) :
                                  /\ a[n - z] # 0
                                  /\ \A h \in 0..(z - 1) : a[n - h] = 0))

\* The carry into limb k of the sums s, each below 2 * Base: that of the
\* nearest limb below k that is not Base - 1.
CarryIn(s, k) ==
    /\ \E j \in 1..(k - 1) : s[j] # Base - 1
    /\ LET d == CHOOSE d \in 1..(k - 1) :
                    /\ s[k - d] # Base - 1
                    /\ \A h \in 1..(d - 1) : s[k - h] = Base - 1
       IN  s[k - d] >= Base

Ripple(s) ==
    BigTrim([k \in 1..(Len(s) + 1) |->
                (Limb(s, k) + (IF CarryIn(s, k) THEN 1 ELSE 0)) % Base])

\* One round of carries of the columns c.
Pass(c) ==
    SubSeq([k \in 1..(Len(c) + 1) |->
               (Limb(c, k) % Base) + (Limb(c, k - 1) \div Base)], 1, Len(c) + 1)

\* The number whose columns, each below 2^31, are c.
BigNorm(c) == Ripple(Pass(Pass(Pass(c))))

BigAdd(a, b) ==
    Ripple(SubSeq([k \in 1..Max(Len(a), Len(b)) |-> Limb(a, k) + Limb(b, k)],
                  1, Max(Len(a), Len(b))))

\* -1, 0 or 1 as a is below, equal to or above b.
BigCmp(a, b) ==
    IF Len(a) # Len(b) THEN (IF Len(a) < Len(b) THEN -1 ELSE 1)
    ELSE IF a = b THEN 0
    ELSE LET n == Len(a)
             z == CHOOSE z \in 0..(n - 1) :
                     /\ a[n - z] # b[n - z]
                     /\ \A h \in 0..(z - 1) : a[n - h] = b[n - h]
         IN  IF a[n - z] < b[n - z] THEN -1 ELSE 1

\* The borrow from limb k of the differences s: that of the nearest limb
\* below k that is not zero.
BorrowIn(s, k) ==
    /\ \E j \in 1..(k - 1) : s[j] # 0
    /\ LET d == CHOOSE d \in 1..(k - 1) :
                    /\ s[k - d] # 0
                    /\ \A h \in 1..(d - 1) : s[k - h] = 0
       IN  s[k - d] < 0

\* a - b, for a >= b.
BigSub(a, b) ==
    LET s == SubSeq([k \in 1..Len(a) |-> a[k] - Limb(b, k)], 1, Len(a))
    IN  BigTrim([k \in 1..Len(a) |->
                    (s[k] - (IF BorrowIn(s, k) THEN 1 ELSE 0) + Base) % Base])

\* a * m, for m up to 2^21.
BigMulSmall(a, m) ==
    BigNorm(SubSeq([k \in 1..Len(a) |-> a[k] * m], 1, Len(a)))

\* a * Base^n.
BigShift(a, n) == IF a = <<>> THEN a ELSE [k \in 1..n |-> 0] \o a

\* The number a string of ASCII digits spells, and the decimal numeral of
\* a number.
BigFromDigits(d) ==
    LET n == Len(d)
        at(j) == IF j >= 1 THEN AsciiVal(d[j]) ELSE 0
    IN  BigTrim([k \in 1..((n + 2) \div 3) |->
                    at(n - 3 * k + 3) + 10 * at(n - 3 * k + 2)
                        + 100 * at(n - 3 * k + 1)])

BigToDigits(a) ==
    LET n == Len(a)
        digit(j) ==
            LET v == a[n - (j - 1) \div 3]
                r == (j - 1) % 3
            IN  AsciiDigits[1 + (IF r = 0 THEN v \div 100
                                 ELSE IF r = 1 THEN (v \div 10) % 10
                                 ELSE v % 10)]
    IN  IF a = <<>> THEN <<"0">>
        ELSE StripLeadingZeros([j \in 1..(3 * n) |-> digit(j)])

\* a * 10^e.
BigTimesPow10(a, e) == BigShift(BigMulSmall(a, 10 ^ (e % 3)), e \div 3)

\* The sum of a[j] * b[col + 1 - j] for j from lo to hi, by halves.
RECURSIVE ColumnSum(_, _, _, _, _)
ColumnSum(a, b, col, lo, hi) ==
    IF lo > hi THEN 0
    ELSE IF lo = hi THEN a[lo] * b[col + 1 - lo]
    ELSE ColumnSum(a, b, col, lo, (lo + hi) \div 2)
            + ColumnSum(a, b, col, (lo + hi) \div 2 + 1, hi)

\* a * b, for numbers of up to 2000 limbs.
BigMul(a, b) ==
    IF a = <<>> \/ b = <<>> THEN <<>>
    ELSE BigNorm(SubSeq([col \in 1..(Len(a) + Len(b) - 1) |->
                            ColumnSum(a, b, col, Max(1, col + 1 - Len(b)),
                                      Min(col, Len(a)))],
                        1, Len(a) + Len(b) - 1))

\* a * a * m, once a has its value.
SquareTimes(a, m) == CASE Ready(a) -> BigMulSmall(BigMul(a, a), m)

\* 2^n, by squaring.
RECURSIVE BigPow2(_)
BigPow2(n) ==
    IF n <= 20 THEN BigMulSmall(<<1>>, 2 ^ n)
    ELSE SquareTimes(BigPow2(n \div 2), 1 + (n % 2))

BigTimesPow2(a, n) == IF n = 0 THEN a ELSE BigMul(a, BigPow2(n))

TwoTo52 == BigPow2(52)

TwoTo53 == BigPow2(53)

\* floor(log2(la / lb)) - low, when it lies from 0 to 5.
LogAbove(la, lb) ==
    CASE Ready(la) /\ Ready(lb) ->
        CHOOSE j \in 0..5 :
            /\ BigCmp(BigMulSmall(lb, 2 ^ j), la) <= 0
            /\ BigCmp(la, BigMulSmall(lb, 2 ^ (j + 1))) < 0

\* floor(log2(a / b)), for a and b not zero, where magnitude is
\* floor(log10(a / b)): it lies from 1 below to 4 above the floor of
\* magnitude * 3.321928.
FloorLog2(a, b, magnitude) ==
    LET low == (magnitude * 3321928) \div 1000000 - 1
    IN  low + LogAbove(BigTimesPow2(a, Max(0 - low, 0)),
                       BigTimesPow2(b, Max(low, 0)))

\* The leading limbs of r, from limb top - 1 on, for r of top + 1 limbs
\* or fewer.
LeadingLimbs(r, top) ==
    Limb(r, top - 1) + Base * Limb(r, top) + Base * Base * Limb(r, top + 1)

\* One digit, in base 512, of the quotient of r by t, for r < 512 * t and
\* t of two limbs or more: the leading limbs of r and t leave two
\* candidates.
QuotientDigit(r, t) ==
    CHOOSE g \in
        (LeadingLimbs(r, Len(t)) \div (LeadingLimbs(t, Len(t)) + 1))
            ..((LeadingLimbs(r, Len(t)) + 1) \div LeadingLimbs(t, Len(t))) :
        /\ BigCmp(BigMulSmall(t, g), r) <= 0
        /\ BigCmp(r, BigMulSmall(t, g + 1)) < 0

\* The quotient so far, s.m, takes the digit g, and t * g leaves the rest
\* s.r.
TakeDigit(s, t, g) ==
    CASE Ready(g) ->
        [m |-> BigAdd(BigMulSmall(s.m, 512), BigMulSmall(<<1>>, g)),
         r |-> BigSub(s.r, BigMulSmall(t, g))]

\* The next digit in base 512 of the quotient: that of the rest by t.
DivideStep(s, t) ==
    CASE Ready(s) /\ Ready(t) -> TakeDigit(s, t, QuotientDigit(s.r, t))

\* The digits of weight 512^j down to 1 of the quotient by t.
RECURSIVE DivideFrom(_, _, _)
DivideFrom(s, t, j) ==
    CASE Ready(s) ->
        IF j < 0 THEN s
        ELSE DivideFrom(DivideStep(s, BigTimesPow2(t, 9 * j)), t, j - 1)

\* Whether twice the rest s.r is below (-1), equal to (0) or above (1) t.
Remainder(s, t) ==
    CASE Ready(s) ->
        [quotient |-> s.m, twice |-> BigCmp(BigAdd(s.r, s.r), t)]

\* The quotient, below 2^54, of n by d, and whether twice the remainder
\* is below, equal to or above d.  (Both are scaled by Base, for a divisor
\* of two limbs or more.)
BigDivide(n, d) ==
    CASE Ready(n) /\ Ready(d) ->
        Remainder(DivideFrom([m |-> <<>>, r |-> BigShift(n, 1)],
                             BigShift(d, 1), 5),
                  BigShift(d, 1))

\* The double of significand m and power q, where m may have reached 2^53.
Carried(neg, m, q) ==
    IF m # TwoTo53 THEN FloatValue(neg, BigToDigits(m), q)
    ELSE IF q = MaxExp THEN InfValue(neg)
    ELSE FloatValue(neg, BigToDigits(TwoTo52), q + 1)

\* The quotient s, rounded to the nearest integer and to the even one of
\* two as near, as the significand of power q.
RoundQuotient(neg, s, q) ==
    CASE Ready(s) ->
        Carried(neg,
                IF s.twice > 0 \/ (s.twice = 0 /\ Limb(s.quotient, 1) % 2 = 1)
                THEN BigAdd(s.quotient, <<1>>)
                ELSE s.quotient,
                q)

\* The double nearest to a / b, in units of 2^q.
RoundAt(neg, a, b, q) ==
    RoundQuotient(neg,
                  BigDivide(BigTimesPow2(a, Max(0 - q, 0)),
                            BigTimesPow2(b, Max(q, 0))),
                  q)

\* The double nearest to a / b, where lg is floor(log2(a / b)): the unit
\* is 2^(lg - 52), and 2^MinExp at least.
RoundInBinade(neg, a, b, lg) ==
    CASE Ready(lg) ->
        IF lg < MinExp - 1 THEN FloatValue(neg, <<"0">>, MinExp)
        ELSE IF lg > MaxExp + 52 THEN InfValue(neg)
        ELSE RoundAt(neg, a, b, Max(lg - 52, MinExp))

\* The double nearest to a / b, which has magnitude + 1 digits before the
\* point.
RoundRatio(neg, a, b, magnitude) ==
    CASE Ready(a) /\ Ready(b) ->
        RoundInBinade(neg, a, b, FloorLog2(a, b, magnitude))

\* The double nearest to the decimal  digits * 10^e, ties to the even
\* significand.
RoundToDouble(neg, digits, e) ==
    LET d == StripLeadingZeros(digits)
        magnitude == e + Len(d) - 1
    IN  IF IsZero(d) \/ magnitude < -324 THEN FloatValue(neg, <<"0">>, MinExp)
        ELSE IF magnitude > 308 THEN InfValue(neg)
        ELSE RoundRatio(neg,
                        BigTimesPow10(BigFromDigits(d), Max(e, 0)),
                        BigTimesPow10(<<1>>, Max(0 - e, 0)),
                        magnitude)

\* The exponent of ten a digit string spells, as _Py_dg_strtod reads it:
\* one of more than nine digits, leading zeros apart, is cut to MaxAbsExp.
MaxAbsExp == 1100000000

ExponentValue(d) ==
    IF Len(StripLeadingZeros(d)) > 9 THEN MaxAbsExp
    ELSE DigitsValue(StripLeadingZeros(d), 0)

\* _Py_dg_strtod refuses a mantissa of more than MaxDigits digits, leading
\* zeros apart, or of more than MaxDigits digits after the point.
MaxDigits == 1000000000

\* The float the stripped string s spells: an optional sign and, in any
\* letter case, "inf", "infinity" or "nan", or digits with an optional
\* point and an optional exponent, at least one digit before or after the
\* point; underscores may group the digits.
ScanFloat(s) ==
    LET signed == Len(s) > 0 /\ IsSign(s[1])
        neg == signed /\ s[1] = "-"
        grouped == IF signed THEN Tail(s) ELSE s
        body == LowerAll(Ungroup(grouped))
        a == DigitPrefixLen(body)
        intPart == Take(body, a)
        r1 == Drop(body, a)
        hasPoint == r1 # <<>> /\ Head(r1) = "."
        r2 == IF hasPoint THEN Tail(r1) ELSE r1
        b == IF hasPoint THEN DigitPrefixLen(r2) ELSE 0
        fracPart == Take(r2, b)
        r3 == Drop(r2, b)
        hasExp == r3 # <<>> /\ Head(r3) = "e"
        r4 == IF hasExp THEN Tail(r3) ELSE r3
        expSigned == hasExp /\ r4 # <<>> /\ IsSign(Head(r4))
        expNeg == expSigned /\ Head(r4) = "-"
        expDigits == IF expSigned THEN Tail(r4) ELSE r4
        expo == IF hasExp
                THEN (IF expNeg THEN 0 - ExponentValue(expDigits)
                      ELSE ExponentValue(expDigits))
                ELSE 0
    IN  IF ~GroupingOk(grouped) THEN ValueError
        ELSE IF body \in {<<"i", "n", "f">>,
                          <<"i", "n", "f", "i", "n", "i", "t", "y">>}
        THEN InfValue(neg)
        ELSE IF body = <<"n", "a", "n">> THEN NanValue
        ELSE IF a + b = 0 THEN ValueError
        ELSE IF hasExp /\ (expDigits = <<>> \/ ~AllDigits(expDigits))
        THEN ValueError
        ELSE IF ~hasExp /\ r3 # <<>> THEN ValueError
        ELSE IF \/ Len(StripLeadingZeros(intPart \o fracPart)) > MaxDigits
                \/ b > MaxDigits
        THEN ValueError
        ELSE RoundToDouble(neg, intPart \o fracPart, expo - b)

\* Python's float(str): white space is stripped, and the rest is scanned.
float(input_arg) == ScanFloat(Strip(AsciiForm(input_arg)))

none_or_int_wrong(input_arg) ==
    IF LowerAll(input_arg) = <<"n", "o", "n", "e">>
    THEN NoValue
    ELSE int(input_arg)

none_or_int(input_arg) ==
    IF input_arg = NoneLiteral THEN NoValue ELSE int(input_arg)

none_or_float(input_arg) ==
    IF input_arg = NoneLiteral THEN NoValue ELSE float(input_arg)

(***************************************************************************)
(* Data shared by the two applications.                                    *)
(***************************************************************************)
\* The monthly series as loaded by np.genfromtxt: n observations, here
\* pairwise distinct so that a value identifies its position.
Series(n, base, step) == [j \in 1..n |-> base + step * j]

\* int(n_series * split_ratio) with split_ratio = 2 / 3.  The double 2/3
\* lies 2^-54 (relative) below two thirds, so for every n_series below
\* 2^52 the rounded product truncates to the floor of 2 * n_series / 3.
SplitPoint(n_series) == (n_series * 2) \div 3

\* affine_transformation(data, scaling_factor, translation), forward
\* direction, on a 1-D array and on an array of rows.  Observations,
\* factor and translation are integers here; the result is a new array.
affine_transformation(data, s, t) == [j \in 1..Len(data) |-> (data[j] + t) * s]

affine_transformation_rows(data, s, t) ==
    [r \in 1..Len(data) |-> affine_transformation(data[r], s, t)]

\* series_to_supervised(series, look_back, steps_ahead): row r (0-based) of
\* the inputs is series[r : r+look_back], row r of the targets is
\* series[r+look_back : r+look_back+steps_ahead].
SupervisedRows(series, lb, k) == Len(series) - lb - k + 1

series_to_supervised(series, lb, k) ==
    [x |-> [r \in 1..SupervisedRows(series, lb, k) |->
               SubSeq(series, r, r + lb - 1)],
     y |-> [r \in 1..SupervisedRows(series, lb, k) |->
               SubSeq(series, r + lb, r + lb + k - 1)]]

zeros(n) == [j \in 1..n |-> 0]

(***************************************************************************)
(* lstm_dense_sunspots.py                                                  *)
(***************************************************************************)
optimizer_selection ==
    {"Adadelta", "Adagrad", "Adam", "Adamax", "Nadam", "RMSprop", "SGD"}

\* Values given to --optimizer: the seven keys and two that are not keys.
OptimizerArgs == optimizer_selection \cup {"adam", "Momentum"}

\* optimizer_selection[args.optimizer]: a dict lookup, KeyError on a miss.
LookupFails_wrong(name) == name \notin (optimizer_selection \cup {"adam"})

LookupFails(name) == name \notin optimizer_selection

TrainSlice(s, ns) == PySliceTo(s, ns)

TestStart_wrong(ns, lb, k) == ns - lb - k

TestStart(ns, lb, k) == ns - lb - k + 1

TestSlice(s, ns, lb, k) == PySliceFrom(s, TestStart(ns, lb, k))

train_y_series == PySliceFrom(train, look_back)
test_y_series == PySliceFrom(test, look_back + steps_ahead - 1)

\* model.predict(x_dyn)[0]: the trained network, a fixed function from a
\* window of look_back values to n_out = steps_ahead values.
RECURSIVE SeqSum(_)
SeqSum(s) == IF s = <<>> THEN 0 ELSE Head(s) + SeqSum(Tail(s))

model_predict_network(window, n_out) ==
    [j \in 1..n_out |-> SeqSum(window) + Len(window) * window[Len(window)] + j]

\* The arguments of the two model_predict calls (lines 284-285) and of the
\* running one.
y_series_of(c) == IF c = "train" THEN train_y_series ELSE test_y_series
x_ == IF call = "train" THEN train_x_ ELSE test_x_
y_series == y_series_of(call)
y_ == IF call = "train" THEN train_ ELSE test_

NoView == [bound |-> FALSE, row |-> 0]

\* y_pred[lo:hi] = vals
WriteBlock(arr, lo, hi, vals) ==
    [j \in 1..Len(arr) |->
        IF lo < j /\ j <= hi THEN vals[j - lo] ELSE arr[j]]

CountBlock(cnt, lo, hi) ==
    [j \in 1..Len(cnt) |-> IF lo < j /\ j <= hi THEN cnt[j] + 1 ELSE cnt[j]]

\* The row of x_ that full window iter reads: x_[pred_start:pred_start + 1].
FullWindowRow_wrong(pred_start, iter) == iter

FullWindowRow(pred_start, iter) == pred_start

\* A 1-D source assigned to the look_back cells x_dyn[0, :, 0]: numpy
\* broadcasts a source of one element and rejects any other length mismatch.
Broadcastable(src, lb) == Len(src) = lb \/ Len(src) = 1

Broadcast(src, lb) == [j \in 1..lb |-> IF Len(src) = 1 THEN src[1] ELSE src[j]]

(***************************************************************************)
(* Initial states.  Every variable a specification does not use keeps the  *)
(* idle value given here.                                                  *)
(***************************************************************************)
IdleCoerce ==
    /\ token = <<>> /\ value = Unset
    /\ unidata_version = 9 /\ int_max_str_digits = 0

IdleData == sunspots = <<>> /\ scaling_factor = 1 /\ translation = 0

IdleRun ==
    /\ n_split = 0 /\ train = <<>> /\ test = <<>>
    /\ train_x = <<>> /\ train_y = <<>> /\ test_x = <<>> /\ test_y = <<>>
    /\ train_x_ = <<>> /\ train_y_ = <<>> /\ test_x_ = <<>> /\ test_y_ = <<>>
    /\ train_ = <<>> /\ test_ = <<>>
    /\ compiled = FALSE /\ fitted = FALSE /\ saved = FALSE
    /\ call = "none" /\ n_y = 0 /\ n_iter = 0 /\ L_last_window = 0 /\ i = 0
    /\ x_dyn = NoView /\ y_pred = <<>>
    /\ train_y_pred_ = <<>> /\ test_y_pred_ = <<>>
    /\ fed = <<>> /\ nwrites = <<>> /\ sarimax_calls = <<>>

IdleArgs == look_back = 1 /\ steps_ahead = 1 /\ optimizer_name = "Adam"

InitCoerce ==
    /\ app = "coerce" /\ pc = "start" /\ err = "none"
    /\ token \in Tokens /\ value = Unset
    /\ unidata_version \in UnidataVersions
    /\ int_max_str_digits \in IntMaxStrDigits
    /\ IdleData /\ IdleArgs /\ IdleRun

Init ==
    /\ app = "lstm" /\ pc = "start" /\ err = "none"
    /\ IdleCoerce
    /\ \E n \in 1..MaxSeries, base \in {0, 5}, step \in {1, 2} :
          sunspots = Series(n, base, step)
    /\ scaling_factor \in {1, 2}
    /\ translation \in {0, 1}
    /\ look_back \in 1..MaxLookBack
    /\ steps_ahead \in 1..MaxStepsAhead
    /\ optimizer_name \in OptimizerArgs
    /\ IdleRun

(***************************************************************************)
(* generic_utils.py: argparse applies the type function to the token.      *)
(***************************************************************************)
CallNoneOrInt ==
    /\ app = "coerce" /\ pc = "start"
    /\ value' = none_or_int(token)
    /\ pc' = "none_or_int"
    /\ UNCHANGED <<app, err, token, unidata_version, int_max_str_digits,
                   dataVars, argVars, splitVars, windowVars, scaledVars,
                   phaseVars, frameVars, predVars, obsVars, sarimax_calls>>

CallNoneOrFloat ==
    /\ app = "coerce" /\ pc = "start"
    /\ value' = none_or_float(token)
    /\ pc' = "none_or_float"
    /\ UNCHANGED <<app, err, token, unidata_version, int_max_str_digits,
                   dataVars, argVars, splitVars, windowVars, scaledVars,
                   phaseVars, frameVars, predVars, obsVars, sarimax_calls>>

NextCoerce == CallNoneOrInt \/ CallNoneOrFloat

SpecCoerce == InitCoerce /\ [][NextCoerce]_vars

(***************************************************************************)
(* lstm_dense_sunspots: the run, statement block by statement block.       *)
(***************************************************************************)
\* Lines 114-123: the train-test split.
Split ==
    /\ app = "lstm" /\ pc = "start"
    /\ n_split' = SplitPoint(Len(sunspots))
    /\ train' = TrainSlice(sunspots, n_split')
    /\ test' = TestSlice(sunspots, n_split', look_back, steps_ahead)
    /\ pc' = "split"
    /\ UNCHANGED <<app, err, coerceVars, dataVars, argVars, windowVars,
                   scaledVars, phaseVars, frameVars, predVars, obsVars,
                   sarimax_calls>>

\* Lines 125-126: windowing of both splits; a split shorter than
\* look_back + steps_ahead fails with InvalidInput.
Window ==
    /\ app = "lstm" /\ pc = "split"
    /\ IF Len(train) < look_back + steps_ahead
          \/ Len(test) < look_back + steps_ahead
       THEN /\ pc' = "failed" /\ err' = "InvalidInput"
            /\ UNCHANGED windowVars
       ELSE /\ train_x' = series_to_supervised(train, look_back, steps_ahead).x
            /\ train_y' = series_to_supervised(train, look_back, steps_ahead).y
            /\ test_x' = series_to_supervised(test, look_back, steps_ahead).x
            /\ test_y' = series_to_supervised(test, look_back, steps_ahead).y
            /\ pc' = "windowed" /\ err' = err
    /\ UNCHANGED <<app, coerceVars, dataVars, argVars, splitVars, scaledVars,
                   phaseVars, frameVars, predVars, obsVars, sarimax_calls>>

\* Lines 131-172: reshape to (samples, look_back, 1), scale the six arrays,
\* build the (not yet compiled) network.
Preprocess ==
    /\ app = "lstm" /\ pc = "windowed"
    /\ train_x_' = affine_transformation_rows(train_x, scaling_factor, translation)
    /\ train_y_' = affine_transformation_rows(train_y, scaling_factor, translation)
    /\ test_x_' = affine_transformation_rows(test_x, scaling_factor, translation)
    /\ test_y_' = affine_transformation_rows(test_y, scaling_factor, translation)
    /\ train_' = affine_transformation(train, scaling_factor, translation)
    /\ test_' = affine_transformation(test, scaling_factor, translation)
    /\ pc' = "preprocessed"
    /\ UNCHANGED <<app, err, coerceVars, dataVars, argVars, splitVars,
                   windowVars, phaseVars, frameVars, predVars, obsVars,
                   sarimax_calls>>

\* Lines 174-193: optimizer = optimizer_selection[args.optimizer].
SelectOptimizer ==
    /\ app = "lstm" /\ pc = "preprocessed"
    /\ IF LookupFails(optimizer_name)
       THEN pc' = "failed" /\ err' = "KeyError"
       ELSE pc' = "selected" /\ err' = err
    /\ UNCHANGED <<app, coerceVars, dataVars, argVars, splitVars, windowVars,
                   scaledVars, phaseVars, frameVars, predVars, obsVars,
                   sarimax_calls>>

\* Line 195: model.compile.
Compile ==
    /\ app = "lstm" /\ pc = "selected"
    /\ compiled' = TRUE
    /\ pc' = "compiled"
    /\ UNCHANGED <<app, err, coerceVars, dataVars, argVars, splitVars,
                   windowVars, scaledVars, fitted, saved, frameVars, predVars,
                   obsVars, sarimax_calls>>

\* Lines 200-246: checkpoint callbacks and model.fit.
Fit ==
    /\ app = "lstm" /\ pc = "compiled"
    /\ fitted' = TRUE
    /\ pc' = "fitted"
    /\ UNCHANGED <<app, err, coerceVars, dataVars, argVars, splitVars,
                   windowVars, scaledVars, compiled, saved, frameVars,
                   predVars, obsVars, sarimax_calls>>

\* Lines 252-257 of model_predict, entered from line 284 (train) and then
\* from line 285 (test).
EnterPredict ==
    /\ app = "lstm" /\ pc \in {"fitted", "train_predicted"}
    /\ call' = (IF pc = "fitted" THEN "train" ELSE "test")
    /\ n_y' = Len(y_series_of(call'))
    /\ n_iter' = n_y' \div steps_ahead
    /\ L_last_window' = n_y' % steps_ahead
    /\ y_pred' = zeros(n_y')
    /\ nwrites' = zeros(n_y')
    /\ i' = 0
    /\ x_dyn' = NoView
    /\ pc' = "model_predict"
    /\ UNCHANGED <<app, err, coerceVars, dataVars, argVars, splitVars,
                   windowVars, scaledVars, phaseVars, predVars, fed,
                   sarimax_calls>>

\* Lines 260-265: one iteration of the loop over the full windows.  x_dyn
\* is a view of one row of x_ (basic slicing does not copy).
FullWindow ==
    /\ app = "lstm" /\ pc = "model_predict" /\ i < n_iter
    /\ LET pred_start == i * steps_ahead
           pred_end == pred_start + steps_ahead
           row == FullWindowRow(pred_start, i)
           y_dyn == model_predict_network(x_[row + 1], steps_ahead)
       IN  /\ x_dyn' = [bound |-> TRUE, row |-> row]
           /\ IF row >= Len(x_)
              THEN \* an empty view: model.predict(...)[0] has no row 0
                   /\ pc' = "failed" /\ err' = "IndexError"
                   /\ UNCHANGED <<y_pred, fed, nwrites, i>>
              ELSE /\ y_pred' = WriteBlock(y_pred, pred_start, pred_end, y_dyn)
                   /\ nwrites' = CountBlock(nwrites, pred_start, pred_end)
                   /\ fed' = Append(fed, [call |-> call, kind |-> "full",
                                          window |-> i, input |-> x_[row + 1],
                                          lo |-> pred_start, hi |-> pred_end])
                   /\ i' = i + 1
                   /\ UNCHANGED <<pc, err>>
    /\ UNCHANGED <<app, coerceVars, dataVars, argVars, splitVars, windowVars,
                   scaledVars, phaseVars, call, n_y, n_iter, L_last_window,
                   predVars, sarimax_calls>>

\* Lines 267-273: the last, partial window.  The assignment
\* x_dyn[0, :, 0] = ... writes through the view left by the loop.
LastWindow ==
    /\ app = "lstm" /\ pc = "model_predict" /\ i = n_iter
    /\ L_last_window > 0
    /\ LET pred_start == n_y - L_last_window
           pred_end == n_y
           src == PySlice(y_, pred_start - look_back, pred_start)
           filled == Broadcast(src, look_back)
           y_dyn == model_predict_network(filled, steps_ahead)
       IN  IF ~x_dyn.bound
           THEN /\ pc' = "failed" /\ err' = "UnboundLocalError"
                /\ UNCHANGED <<scaledVars, y_pred, fed, nwrites>>
           ELSE IF ~Broadcastable(src, look_back)
           THEN /\ pc' = "failed" /\ err' = "ValueError"
                /\ UNCHANGED <<scaledVars, y_pred, fed, nwrites>>
           ELSE /\ train_x_' = (IF call = "train"
                                THEN [train_x_ EXCEPT ![x_dyn.row + 1] = filled]
                                ELSE train_x_)
                /\ test_x_' = (IF call = "test"
                               THEN [test_x_ EXCEPT ![x_dyn.row + 1] = filled]
                               ELSE test_x_)
                /\ y_pred' = WriteBlock(y_pred, pred_start, pred_end,
                                        Take(y_dyn, L_last_window))
                /\ nwrites' = CountBlock(nwrites, pred_start, pred_end)
                /\ fed' = Append(fed, [call |-> call, kind |-> "partial",
                                       window |-> n_iter, input |-> filled,
                                       lo |-> pred_start, hi |-> pred_end])
                /\ pc' = "last_window_done" /\ err' = err
                /\ UNCHANGED <<train_y_, test_y_, train_, test_>>
    /\ UNCHANGED <<app, coerceVars, dataVars, argVars, splitVars, windowVars,
                   phaseVars, call, n_y, n_iter, L_last_window, i, x_dyn,
                   predVars, sarimax_calls>>

\* Line 275, and the assignment of the result at line 284 or 285.
ReturnPredict ==
    /\ app = "lstm"
    /\ IF pc = "model_predict"
       THEN i = n_iter /\ L_last_window = 0
       ELSE pc = "last_window_done"
    /\ train_y_pred_' = (IF call = "train" THEN y_pred ELSE train_y_pred_)
    /\ test_y_pred_' = (IF call = "test" THEN y_pred ELSE test_y_pred_)
    /\ pc' = (IF call = "train" THEN "train_predicted" ELSE "test_predicted")
    /\ UNCHANGED <<app, err, coerceVars, dataVars, argVars, splitVars,
                   windowVars, scaledVars, phaseVars, frameVars, obsVars,
                   sarimax_calls>>

\* Lines 288-325: un-scaling, metrics, figures, save_regress_model.
Finish ==
    /\ app = "lstm" /\ pc = "test_predicted"
    /\ saved' = TRUE
    /\ pc' = "done"
    /\ UNCHANGED <<app, err, coerceVars, dataVars, argVars, splitVars,
                   windowVars, scaledVars, compiled, fitted, frameVars,
                   predVars, obsVars, sarimax_calls>>

Next ==
    \/ Split
    \/ Window
    \/ Preprocess
    \/ SelectOptimizer
    \/ Compile
    \/ Fit
    \/ EnterPredict
    \/ FullWindow
    \/ LastWindow
    \/ ReturnPredict
    \/ Finish

Spec == Init /\ [][Next]_vars

(***************************************************************************)
(* sarimax_sunspots.py: main.                                              *)
(***************************************************************************)
\* seasonal_order = (1, 1, 0, 130): the series must hold several seasons
\* for the fit to be possible.
SeasonalPeriod == 130

InitSarimax ==
    /\ app = "sarimax" /\ pc = "start" /\ err = "none"
    /\ IdleCoerce
    /\ \E n \in (3 * SeasonalPeriod)..(3 * SeasonalPeriod + SarimaxExtra),
          base \in {0, 5}, step \in {1, 2} :
          sunspots = Series(n, base, step)
    /\ scaling_factor \in {1, 2}
    /\ translation \in {0, 1}
    /\ IdleArgs /\ IdleRun

n_series == Len(sunspots)
n_train == Len(train_y)
n_test == Len(test_y)

\* np.zeros(n_train) and np.zeros((n_test, 1)).
outlier_exog == [shape |-> <<n_train>>, data |-> zeros(n_train)]
outlier_exog_fcast == [shape |-> <<n_test, 1>>, data |-> zeros(n_test)]

\* model_fit.predict(start, end, exog): one value per index of [start, end];
\* the values are the library's and are not modelled.
sarimax_predict(start, end) == zeros(end - start + 1)

\* Lines 86-92.
SarimaxSplit ==
    /\ app = "sarimax" /\ pc = "start"
    /\ n_split' = SplitPoint(n_series)
    /\ train_y' = PySliceTo(sunspots, n_split')
    /\ test_y' = PySliceFrom(sunspots, n_split')
    /\ pc' = "split"
    /\ UNCHANGED <<app, err, coerceVars, dataVars, argVars, train, test,
                   train_x, test_x, scaledVars, phaseVars, frameVars,
                   predVars, obsVars, sarimax_calls>>

\* Lines 97-105.
SarimaxPreprocess ==
    /\ app = "sarimax" /\ pc = "split"
    /\ train_y_' = affine_transformation(train_y, scaling_factor, translation)
    /\ test_y_' = affine_transformation(test_y, scaling_factor, translation)
    /\ pc' = "preprocessed"
    /\ UNCHANGED <<app, err, coerceVars, dataVars, argVars, splitVars,
                   windowVars, train_x_, test_x_, train_, test_, phaseVars,
                   frameVars, predVars, obsVars, sarimax_calls>>

\* Lines 110-118: SARIMAX(train_y_, ..., exog=outlier_exog).fit().
SarimaxFit ==
    /\ app = "sarimax" /\ pc = "preprocessed"
    /\ sarimax_calls' = Append(sarimax_calls,
           [op |-> "fit", start |-> 0, end |-> Len(train_y_) - 1,
            exog |-> outlier_exog])
    /\ fitted' = TRUE
    /\ pc' = "fitted"
    /\ UNCHANGED <<app, err, coerceVars, dataVars, argVars, splitVars,
                   windowVars, scaledVars, compiled, saved, frameVars,
                   predVars, obsVars>>

\* Lines 123-126: the in-sample prediction.
SarimaxPredictTrain ==
    /\ app = "sarimax" /\ pc = "fitted"
    /\ sarimax_calls' = Append(sarimax_calls,
           [op |-> "predict", start |-> 0, end |-> n_train - 1,
            exog |-> outlier_exog_fcast])
    /\ train_y_pred_' = sarimax_predict(0, n_train - 1)
    /\ pc' = "train_predicted"
    /\ UNCHANGED <<app, err, coerceVars, dataVars, argVars, splitVars,
                   windowVars, scaledVars, phaseVars, frameVars, test_y_pred_,
                   obsVars>>

\* Line 127: the out-of-sample prediction.
SarimaxPredictTest ==
    /\ app = "sarimax" /\ pc = "train_predicted"
    /\ sarimax_calls' = Append(sarimax_calls,
           [op |-> "predict", start |-> n_train, end |-> n_series - 1,
            exog |-> outlier_exog_fcast])
    /\ test_y_pred_' = sarimax_predict(n_train, n_series - 1)
    /\ pc' = "test_predicted"
    /\ UNCHANGED <<app, err, coerceVars, dataVars, argVars, splitVars,
                   windowVars, scaledVars, phaseVars, frameVars,
                   train_y_pred_, obsVars>>

\* Lines 130-202: un-scaling, metrics, figures.
SarimaxFinish ==
    /\ app = "sarimax" /\ pc = "test_predicted"
    /\ pc' = "done"
    /\ UNCHANGED <<app, err, coerceVars, dataVars, argVars, splitVars,
                   windowVars, scaledVars, phaseVars, frameVars, predVars,
                   obsVars, sarimax_calls>>

NextSarimax ==
    \/ SarimaxSplit
    \/ SarimaxPreprocess
    \/ SarimaxFit
    \/ SarimaxPredictTrain
    \/ SarimaxPredictTest
    \/ SarimaxFinish

SpecSarimax == InitSarimax /\ [][NextSarimax]_vars

(***************************************************************************)
(* Properties of the coercion helpers.                                     *)
(***************************************************************************)
\* The value of a digit string by positional weight, from the right.
RECURSIVE PositionalValue(_)
PositionalValue(d) ==
    IF d = <<>> THEN 0
    ELSE DigitVal(d[Len(d)]) + 10 * PositionalValue(SubSeq(d, 1, Len(d) - 1))

\* The token between its leading and its trailing white space.
CoreOf(t) ==
    LET first == CHOOSE f \in 0..Len(t) :
                    /\ f = Len(t) \/ t[f + 1] \notin WhiteSpace
                    /\ \A j \in 1..f : t[j] \in WhiteSpace
        last == CHOOSE l \in first..Len(t) :
                    /\ l = first \/ t[l] \notin WhiteSpace
                    /\ \A j \in (l + 1)..Len(t) : t[j] \in WhiteSpace
    IN  SubSeq(t, first + 1, last)

\* s is a run of digits: digits, with single underscores between them.
IsDigitRun(s) ==
    /\ s # <<>>
    /\ s[1] \in DigitChars /\ s[Len(s)] \in DigitChars
    /\ \A j \in 1..Len(s) : s[j] \in DigitChars \cup {"_"}
    /\ \A j \in 1..(Len(s) - 1) : ~(s[j] = "_" /\ s[j + 1] = "_")

IsDigit(c) == c \in DigitChars

RunDigits(s) == SelectSeq(s, IsDigit)

\* The number of digits of d from its first non-zero digit on.
SignificantLen(d) ==
    IF \A j \in 1..Len(d) : DigitVal(d[j]) = 0 THEN 0
    ELSE Len(d) + 1 - (CHOOSE j \in 1..Len(d) :
                          /\ DigitVal(d[j]) # 0
                          /\ \A h \in 1..(j - 1) : DigitVal(d[h]) = 0)

\* The string c is the decimal numeral, in ASCII digits, of the number the
\* digit string d spells: no leading zero, save for zero.
IsNumeralOf(c, d) ==
    LET lz == Len(d) - Len(c)
    IN  /\ c # <<>> /\ lz >= 0
        /\ \A j \in 1..lz : DigitVal(d[j]) = 0
        /\ \A j \in 1..Len(c) :
              /\ \E v \in 0..9 : c[j] = AsciiDigits[v + 1]
              /\ DigitVal(c[j]) = DigitVal(d[lz + j])
        /\ c[1] = "0" => c = <<"0">>

\* c is an optional sign followed by a run of digits.
IsIntegerToken(c) ==
    \E sg \in 0..1 :
        /\ sg = 1 => (Len(c) >= 1 /\ c[1] \in {"-", "+"})
        /\ IsDigitRun(SubSeq(c, sg + 1, Len(c)))

\* The digits of the integer token c.
IntegerDigits(c) ==
    RunDigits(SubSeq(c, (IF c[1] \in {"-", "+"} THEN 2 ELSE 1), Len(c)))

\* v is the integer the integer token c denotes.
DenotedInt(c, v) ==
    /\ v.kind = "int" /\ v.exp = 0
    /\ IsNumeralOf(v.digits, IntegerDigits(c))
    /\ v.neg <=> (c[1] = "-" /\ SignificantLen(IntegerDigits(c)) > 0)

\* The places of c where the integer part or the fraction of a number can
\* end: before a point or an exponent letter, and at the end.
Marks(c) == {j \in 0..Len(c) : j = Len(c) \/ c[j + 1] \in {".", "e", "E"}}

\* The ways to read c as  [+-] I [. F] [e [+-] E]  with I, F, E runs of
\* digits, I and F not both empty and E not empty: the cut positions
\* sg <= p <= q and the flags for the point, the exponent and its sign.
FloatReadings(c) ==
    {rd \in [sg : 0..1, p : Marks(c), dot : 0..1, q : Marks(c),
             ex : 0..1, es : 0..1] :
        /\ rd.sg <= rd.p /\ rd.p + rd.dot <= rd.q /\ rd.q <= Len(c)
        /\ rd.sg = 1 => c[1] \in {"-", "+"}
        /\ rd.p > rd.sg => IsDigitRun(SubSeq(c, rd.sg + 1, rd.p))
        /\ rd.dot = 1 => c[rd.p + 1] = "."
        /\ rd.dot = 0 => rd.q = rd.p
        /\ rd.q > rd.p + rd.dot =>
              IsDigitRun(SubSeq(c, rd.p + rd.dot + 1, rd.q))
        /\ (rd.p - rd.sg) + (rd.q - rd.p - rd.dot) >= 1
        /\ rd.ex = 0 => rd.q = Len(c) /\ rd.es = 0
        /\ rd.ex = 1 =>
              /\ rd.q + 1 + rd.es < Len(c)
              /\ c[rd.q + 1] \in {"e", "E"}
              /\ rd.es = 1 => c[rd.q + 2] \in {"-", "+"}
              /\ IsDigitRun(SubSeq(c, rd.q + 2 + rd.es, Len(c)))}

\* The number a reading denotes, as mantissa digits and a power of ten.
ReadingFraction(c, rd) == RunDigits(SubSeq(c, rd.p + rd.dot + 1, rd.q))

ReadingDigits(c, rd) ==
    RunDigits(SubSeq(c, rd.sg + 1, rd.p)) \o ReadingFraction(c, rd)

\* An exponent of more than nine significant digits is read as 10^9: with
\* a mantissa of fewer than 10^8 digits the number is as far out of the
\* range of a double either way.
ReadingExponent(c, rd) ==
    LET d == RunDigits(SubSeq(c, rd.q + 2 + rd.es, Len(c)))
        e == IF rd.ex = 0 THEN 0
             ELSE IF SignificantLen(d) > 9 THEN 1000000000
             ELSE PositionalValue(SubSeq(d, Len(d) - SignificantLen(d) + 1,
                                         Len(d)))
    IN  (IF rd.es = 1 /\ c[rd.q + 2] = "-" THEN 0 - e ELSE e)
           - Len(ReadingFraction(c, rd))

\* s spells the lower-case word w in some letter case, after an optional
\* sign.
SpellsWord(s, w) ==
    \E sg \in 0..1 :
        /\ Len(s) = sg + Len(w)
        /\ sg = 1 => s[1] \in {"-", "+"}
        /\ \A j \in 1..Len(w) :
              \/ s[sg + j] = w[j]
              \/ \E h \in 1..26 :
                    LowerCase[h] = w[j] /\ UpperCase[h] = s[sg + j]

IsNanToken(c) == SpellsWord(c, <<"n", "a", "n">>)

IsInfToken(c) ==
    \/ SpellsWord(c, <<"i", "n", "f">>)
    \/ SpellsWord(c, <<"i", "n", "f", "i", "n", "i", "t", "y">>)

\* The number a string of decimal digits, of any script, spells.
NumberOf(d) ==
    BigFromDigits(SubSeq([j \in 1..Len(d) |-> AsciiDigits[DigitVal(d[j]) + 1]],
                         1, Len(d)))

\* The sign of  a / b - c * 2^k  (-1, 0 or 1), for b not zero.
CompareToBinary(a, b, c, k) ==
    LET left == BigTimesPow2(a, Max(0 - k, 0))
        right == BigMul(b, BigTimesPow2(c, Max(k, 0)))
    IN  CASE Ready(left) /\ Ready(right) -> BigCmp(left, right)

\* The double of significand m and power q is the nearest to a / b, and
\* of the two nearest the one of even significand when a / b is half way:
\* a / b lies between the points half way to the doubles next to it, which
\* are one unit of 2^q away, or half a unit below a power of two.
IsNearest(a, b, m, q) ==
    LET even == Limb(m, 1) % 2 = 0
        above == BigAdd(BigMulSmall(m, 2), <<1>>)
        below == IF m = TwoTo52 /\ q > MinExp
                 THEN BigSub(BigMulSmall(m, 4), <<1>>)
                 ELSE BigSub(BigMulSmall(m, 2), <<1>>)
        unit == IF m = TwoTo52 /\ q > MinExp THEN q - 2 ELSE q - 1
        high == CompareToBinary(a, b, above, q - 1)
        low == CompareToBinary(a, b, below, unit)
    IN  CASE Ready(high) /\ Ready(low) ->
            /\ high < 0 \/ (high = 0 /\ even)
            /\ low > 0 \/ (low = 0 /\ even)

\* v is a double in its normal form, and not zero.
IsDouble(v) ==
    /\ v.kind = "float"
    /\ v.exp \in MinExp..MaxExp
    /\ v.digits # <<>> /\ v.digits[1] # "0"
    /\ \A j \in 1..Len(v.digits) :
          \E d \in 0..9 : v.digits[j] = AsciiDigits[d + 1]
    /\ BigCmp(BigFromDigits(v.digits), TwoTo53) < 0
    /\ v.exp = MinExp \/ BigCmp(BigFromDigits(v.digits), TwoTo52) >= 0

\* v is the double nearest to the number the reading rd of c denotes: zero
\* up to half the least double, inf from half way between the greatest
\* double and 2^1024 on.
DenotedFloat(c, rd, v) ==
    LET d == ReadingDigits(c, rd)
        e == ReadingExponent(c, rd)
        sig == SubSeq(d, Len(d) - SignificantLen(d) + 1, Len(d))
        magnitude == e + Len(sig) - 1
        neg == c[1] = "-"
        a == BigTimesPow10(NumberOf(sig), Max(e, 0))
        b == BigTimesPow10(<<1>>, Max(0 - e, 0))
        zero == v.kind = "float" /\ v.digits = <<"0">> /\ v.exp = MinExp
        infinite == v.kind = "inf"
        tiny == CompareToBinary(a, b, <<1>>, MinExp - 1)
        huge == CompareToBinary(a, b, BigSub(BigMulSmall(TwoTo53, 2), <<1>>),
                                MaxExp - 1)
    IN  /\ v.kind \in {"float", "inf"}
        /\ v.neg <=> neg
        /\ IF sig = <<>> \/ magnitude < -324 THEN zero
           ELSE IF magnitude > 309 THEN infinite
           ELSE CASE Ready(a) /\ Ready(b) /\ Ready(tiny) /\ Ready(huge) ->
                IF tiny <= 0 THEN zero
                ELSE IF huge >= 0 THEN infinite
                ELSE IsDouble(v)
                        /\ IsNearest(a, b, BigFromDigits(v.digits), v.exp)

\* None is returned exactly for the token "None".
NoneForNoneOnly ==
    pc \in {"none_or_int", "none_or_float"} =>
        (value.kind = "None" <=> token = <<"N", "o", "n", "e">>)

\* none_or_float returns the floating-point value the token denotes, and
\* fails with ValueError on a token that denotes none.
FloatContract ==
    (pc = "none_or_float" /\ token # <<"N", "o", "n", "e">>) =>
        IF IsNanToken(CoreOf(token)) THEN value.kind = "nan"
        ELSE IF IsInfToken(CoreOf(token))
        THEN value.kind = "inf" /\ (value.neg <=> CoreOf(token)[1] = "-")
        ELSE IF FloatReadings(CoreOf(token)) = {}
        THEN value.kind = "ValueError"
        ELSE \A rd \in FloatReadings(CoreOf(token)) :
                DenotedFloat(CoreOf(token), rd, value)

\* The integer token c has more digits than the interpreter converts.
OverDigitLimit(c) ==
    /\ int_max_str_digits > 0
    /\ Len(IntegerDigits(c)) > int_max_str_digits

\* C1, as stated: none_or_int and none_or_float return None exactly for
\* the token "None"; for any other token they return the integer
\* (respectively the floating-point value) the token denotes; and a token
\* that is neither "None" nor a number fails with ValueError.
C1_CoercionContract ==
    /\ NoneForNoneOnly
    /\ (pc = "none_or_int" /\ token # <<"N", "o", "n", "e">>) =>
          IF IsIntegerToken(CoreOf(token))
          THEN DenotedInt(CoreOf(token), value)
          ELSE value.kind = "ValueError"
    /\ FloatContract

\* C1, amended: as above, except that under an interpreter that limits
\* the digits of the integers it reads (CPython 3.11 and later: 4300
\* unless set otherwise) none_or_int fails with ValueError on an integer
\* of more digits than the limit.
C1_CoercionWithinDigitLimit ==
    /\ NoneForNoneOnly
    /\ (pc = "none_or_int" /\ token # <<"N", "o", "n", "e">>) =>
          IF IsIntegerToken(CoreOf(token)) /\ ~OverDigitLimit(CoreOf(token))
          THEN DenotedInt(CoreOf(token), value)
          ELSE value.kind = "ValueError"
    /\ FloatContract

C1_Witness ==
    /\ pc = "none_or_int"
    /\ int_max_str_digits = DefaultMaxStrDigits
    /\ Len(token) = DefaultMaxStrDigits + 1 /\ token[1] = "1"
    /\ value.kind = "ValueError"

(***************************************************************************)
(* Properties of the LSTM-Dense application.                               *)
(***************************************************************************)
InPredict == app = "lstm" /\ call # "none"

Returned ==
    \/ pc = "done"
    \/ pc = "test_predicted"
    \/ pc = "train_predicted" /\ call = "train"

\* The records of the running call, by kind.
Feeds(kind) ==
    {j \in 1..Len(fed) : fed[j].call = call /\ fed[j].kind = kind}

\* The scaled arrays as they are when passed to model_predict.
ScaledInputs(c) ==
    affine_transformation_rows(IF c = "train" THEN train_x ELSE test_x,
                               scaling_factor, translation)

ScaledFlat(c) ==
    affine_transformation(IF c = "train" THEN train ELSE test,
                          scaling_factor, translation)

\* The 0-based index in the split's flat series of target position p.
FlatIndex(c, p) == Len(ScaledFlat(c)) - Len(y_series_of(c)) + p

\* The look_back values of the flat scaled series that end exactly before
\* target position p.
ContextBefore(c, p) ==
    SubSeq(ScaledFlat(c), FlatIndex(c, p) - look_back + 1, FlatIndex(c, p))

\* C2: on a target series of length n >= k >= 1, model_predict makes
\* floor(n/k) full-window predictions on consecutive blocks of k positions,
\* one partial-window prediction on the rest iff n mod k > 0, writes every
\* position exactly once and returns a sequence of length n.
C2_WindowCoverage ==
    (InPredict /\ n_y >= steps_ahead) =>
        /\ pc # "failed"
        /\ Returned =>
              /\ Len(y_pred) = n_y
              /\ \A j \in 1..n_y : nwrites[j] = 1
              /\ Cardinality(Feeds("full")) = n_y \div steps_ahead
              /\ Cardinality(Feeds("partial"))
                    = (IF n_y % steps_ahead > 0 THEN 1 ELSE 0)
              /\ \A j \in Feeds("full") :
                    /\ fed[j].lo = fed[j].window * steps_ahead
                    /\ fed[j].hi = fed[j].lo + steps_ahead
              /\ \A j \in Feeds("partial") :
                    /\ fed[j].lo = (n_y \div steps_ahead) * steps_ahead
                    /\ fed[j].hi = n_y

SplitShape ==
    LET n == Len(sunspots)
        pad == look_back + steps_ahead - 1
    IN  /\ 3 * n_split <= 2 * n /\ 2 * n < 3 * n_split + 3
        /\ Len(train) = n_split
        /\ \A j \in 1..n_split : train[j] = sunspots[j]
        /\ Len(test) = n - n_split + pad
        /\ \A j \in 1..Len(test) :
              test[j] = IF j <= pad THEN train[n_split - pad + j]
                        ELSE sunspots[n_split + j - pad]

\* C3 as stated: whenever look_back + steps_ahead <= N, train is the first
\* floor(2N/3) points and the test slice is the last
\* look_back + steps_ahead - 1 points of train followed by the rest.
C3_TestSliceUpToSeriesLength ==
    (app = "lstm" /\ pc = "split"
       /\ look_back + steps_ahead <= Len(sunspots)) => SplitShape

\* C3 as amended: the same, whenever look_back + steps_ahead <= n_split + 1.
C3_TestSlice ==
    (app = "lstm" /\ pc = "split"
       /\ look_back + steps_ahead <= n_split + 1) => SplitShape

C3_Witness ==
    /\ app = "lstm" /\ pc = "split" /\ Len(sunspots) = 9
    /\ look_back = 3 /\ steps_ahead = 2 /\ Len(test) = 7

\* C4: with an --optimizer value outside the seven names the run fails with
\* the lookup's KeyError at the latest, and the model is never compiled,
\* never fitted, model_predict never entered and nothing saved; with one of
\* the seven names the lookup never fails.
C4_UnknownOptimizer ==
    LET known == optimizer_name \in {"Adadelta", "Adagrad", "Adam", "Adamax",
                                     "Nadam", "RMSprop", "SGD"}
    IN  app = "lstm" =>
          /\ ~known =>
                /\ ~compiled /\ ~fitted /\ ~saved /\ call = "none"
                /\ pc \in {"start", "split", "windowed", "preprocessed",
                           "failed"}
                /\ pc = "failed" => err \in {"InvalidInput", "KeyError"}
          /\ known => err # "KeyError"
          /\ (known /\ pc \notin {"start", "split", "windowed",
                                  "preprocessed", "selected", "failed"})
                => compiled
          /\ (known /\ pc \notin {"start", "split", "windowed",
                                  "preprocessed", "selected", "compiled",
                                  "failed"})
                => fitted

C4_Witness ==
    /\ app = "lstm" /\ optimizer_name = "adam"
    /\ pc = "failed" /\ err = "KeyError" /\ ~compiled /\ ~fitted

\* The k values predicted from a fed window are the ones at its output
\* positions while the call runs.
BlockWritten(f) ==
    (f.call = call /\ pc # "failed") =>
        \A j \in (f.lo + 1)..f.hi :
            y_pred[j] = model_predict_network(f.input, steps_ahead)[j - f.lo]

\* C5 as stated: full window i feeds row i of the scaled windowed inputs
\* and its k predictions go to positions [i*k, i*k + k).
C5_FullWindowFeedsRowI ==
    \A j \in 1..Len(fed) :
        fed[j].kind = "full" =>
            /\ fed[j].input = ScaledInputs(fed[j].call)[fed[j].window + 1]
            /\ fed[j].lo = fed[j].window * steps_ahead
            /\ fed[j].hi = fed[j].lo + steps_ahead
            /\ BlockWritten(fed[j])

\* C5 as amended: full window i feeds row i*k of the scaled windowed inputs
\* and its k predictions go to positions [i*k, i*k + k).
C5_FullWindowFeedsRowIK ==
    \A j \in 1..Len(fed) :
        fed[j].kind = "full" =>
            /\ fed[j].input
                 = ScaledInputs(fed[j].call)[fed[j].window * steps_ahead + 1]
            /\ fed[j].lo = fed[j].window * steps_ahead
            /\ fed[j].hi = fed[j].lo + steps_ahead
            /\ BlockWritten(fed[j])

C5_Witness ==
    /\ app = "lstm" /\ steps_ahead = 2 /\ pc = "model_predict"
    /\ \E j \in 1..Len(fed) :
          /\ fed[j].kind = "full" /\ fed[j].window = 1 /\ fed[j].lo = 2
          /\ fed[j].input = train_x_[3] /\ fed[j].input # train_x_[2]

\* C6: in both calls, the window fed for full window i holds the look_back
\* values immediately preceding target_series[i*k] in the split's series.
C6_FullWindowsAligned ==
    \A j \in 1..Len(fed) :
        fed[j].kind = "full" =>
            fed[j].input = ContextBefore(fed[j].call, fed[j].window * steps_ahead)

\* C7: the input of the partial window is look_back values of the flat
\* scaled series, those ending exactly before the first position of the
\* partial target region.
C7_PartialWindowContext ==
    \A j \in 1..Len(fed) :
        fed[j].kind = "partial" =>
            /\ Len(fed[j].input) = look_back
            /\ fed[j].input = ContextBefore(fed[j].call, fed[j].lo)

\* C9: on a target series shorter than steps_ahead, model_predict does not
\* fail; it makes the single partial-window prediction and returns n values.
C9_ShortTargetSeries ==
    (InPredict /\ 0 < n_y /\ n_y < steps_ahead) =>
        /\ pc # "failed"
        /\ Returned =>
              /\ Len(y_pred) = n_y
              /\ Cardinality(Feeds("partial")) = 1
              /\ Feeds("full") = {}

\* C10: a step of model_predict changes none of the arrays passed to it.
C10_ArgumentsUnchanged ==
    [][(pc \in {"model_predict", "last_window_done"}) =>
          /\ train_x_' = train_x_ /\ test_x_' = test_x_
          /\ train_' = train_ /\ test_' = test_
          /\ train' = train /\ test' = test]_vars

(***************************************************************************)
(* Properties of the SARIMAX application.                                  *)
(***************************************************************************)
\* C8: the fit and each of the two prediction calls receive an all-zero
\* exogenous regressor with one row per index the call covers.
C8_ExogLengths ==
    \A j \in 1..Len(sarimax_calls) :
        LET c == sarimax_calls[j]
        IN  /\ \A m \in 1..Len(c.exog.data) : c.exog.data[m] = 0
            /\ c.exog.shape[1] = c.end - c.start + 1
            /\ Len(c.exog.data) = c.end - c.start + 1

=============================================================================
